---- MODULE Spec2Model ----
(***************************************************************************)
(* CareStock Watch: the inventory metrics (forecast, EOQ, safety stock,    *)
(* reorder point, recommendation) and the Actions page workflow of          *)
(* snowflake_core/streamlit_app.py (working table + action log).            *)
(*                                                                          *)
(* Number representation.  Quantities with one decimal (demand, forecasts,  *)
(* EOQ, safety stock, reorder point, days-to-stockout) are held as integers *)
(* in TENTHS: AVG_DAILY_DEMAND = 30 stands for 3.0 units/day (only the     *)
(* demand argument of calculate_reorder_point is in hundredths).  Stock,    *)
(* lead time, horizon, costs and action quantities are whole numbers.       *)
(* Python's round(x, 1) is modelled on the exact rational value, nearest    *)
(* tenth, ties to even.                                                     *)
(***************************************************************************)
EXTENDS Integers, Sequences, FiniteSets, TLC

VARIABLES
    df,             \* the derived table of the current run (index -> row)
    session_state,  \* st.session_state: keys working_df, action_log when set
    page,           \* the page chosen in the "Navigate" selectbox
    selected_index, \* the "Select item" selectbox value of the last run
    message,        \* st.error / st.success shown by the last run
    form,           \* the form values read by the last run, if submitted
    call            \* the last evaluation of a metric function (SpecMetrics)

vars == <<df, session_state, page, selected_index, message, form, call>>

(***************************************************************************)
(* Bounds and input sets                                                    *)
(***************************************************************************)
\* most actions applied in one session
MaxActions == 2
\* largest forecast horizon tried
MaxHorizon == 8
\* largest closing stock given to the derivation pass
MaxStock == 6

\* demands in tenths: 0, 0.5, 1.0, 2.0, 3.0, 4.0, 5.0 per day
Demands == {0, 5, 10, 20, 30, 40, 50}
Leads == {0, 1, 4, 7, 14}
Horizons == (0 - 2) .. MaxHorizon
\* ordering cost 1 with holding cost 11680 and demand 1.0 makes the EOQ
\* exactly 0.25 (2 * 365 / 11680 = 0.0625)
OrderingCosts == {1, 100, 500}
HoldingCosts == {20, 50, 11680}
\* demands in hundredths given to calculate_reorder_point: 0, 0.25, 0.75,
\* 1.25, 5.00 per day, and safety stocks in tenths: 0, 0.5, 6.5.  All are
\* binary fractions, so demand * lead + safety stock is exact in doubles.
FineDemands == {0, 25, 75, 125, 500}
SafetyStocks == {0, 5, 65}
\* service levels in hundredths: the default 1.65, and 2.0
ServiceLevels == {165, 200}

(***************************************************************************)
(* Arithmetic helpers                                                       *)
(***************************************************************************)
Max(a, b) == IF a >= b THEN a ELSE b

Abs(a) == IF a >= 0 THEN a ELSE 0 - a

\* nearest integer to num/den (den > 0), ties to the even neighbour
RoundHalfEven(num, den) ==
    LET q == num \div den
        r == num % den
    IN  IF 2 * r < den THEN q
        ELSE IF 2 * r > den THEN q + 1
        ELSE IF q % 2 = 0 THEN q ELSE q + 1

\* floor of the square root of n >= 0, by bisection on lo..hi
RECURSIVE SqrtSearch(_, _, _)
SqrtSearch(n, lo, hi) ==
    IF lo >= hi THEN lo
    ELSE LET mid == (lo + hi + 1) \div 2
         IN  IF mid * mid <= n THEN SqrtSearch(n, mid, hi)
             ELSE SqrtSearch(n, lo, mid - 1)

ISqrt(n) == SqrtSearch(n, 0, 46340)

\* nearest integer to sqrt(num/den) (num >= 0, den > 0), ties to even
RoundSqrt(num, den) ==
    LET t == ISqrt((4 * num) \div den)      \* floor(2 * sqrt(num/den))
        q == t \div 2
    IN  IF t % 2 = 0 THEN q
        ELSE IF t * t * den = 4 * num       \* exactly q + 1/2
             THEN (IF q % 2 = 0 THEN q ELSE q + 1)
             ELSE q + 1

\* nearest integer to sqrt(num/den); a value exactly halfway goes down
RoundSqrtBelow(num, den) ==
    LET t == ISqrt((4 * num) \div den)
        q == t \div 2
    IN  IF t % 2 = 0 \/ t * t * den = 4 * num THEN q ELSE q + 1

(***************************************************************************)
(* Python call results: a returned value or a raised exception              *)
(***************************************************************************)
Return(v) == [raised |-> FALSE, value |-> v]
Raise(e) == [raised |-> TRUE, error |-> e]

(***************************************************************************)
(* Demand forecast (snowflake_core/ai_component_additions.py)               *)
(***************************************************************************)
\* faulty variant: the two ends of the confidence band exchanged
cortex_demand_forecast_swapped(avg_daily_demand, lead_time_days, horizon_days) ==
    LET forecast_units == avg_daily_demand * horizon_days
    IN  [forecast_units |-> RoundHalfEven(forecast_units, 1),
         lower_bound    |-> RoundHalfEven(forecast_units * 12, 10),
         upper_bound    |-> RoundHalfEven(forecast_units * 8, 10),
         explanation    |-> <<"Forecast uses recent average demand",
                              avg_daily_demand, horizon_days, lead_time_days>>]

\* avg_daily_demand in tenths; the result's numbers in tenths
cortex_demand_forecast(avg_daily_demand, lead_time_days, horizon_days) ==
    LET forecast_units == avg_daily_demand * horizon_days
    IN  [forecast_units |-> RoundHalfEven(forecast_units, 1),
         lower_bound    |-> RoundHalfEven(forecast_units * 8, 10),
         upper_bound    |-> RoundHalfEven(forecast_units * 12, 10),
         explanation    |-> <<"Forecast uses recent average demand",
                              avg_daily_demand, horizon_days, lead_time_days>>]

\* The two application scripts.  streamlit_app.py imports
\* cortex_demand_forecast (line 8); snowflake_core/streamlit_app.py, which
\* holds the whole application, has no such import (lines 1-7), so there the
\* name is unbound and its evaluation raises NameError.
Apps == {"streamlit_app.py", "snowflake_core/streamlit_app.py"}

imports_cortex_demand_forecast(app) == app = "streamlit_app.py"

\* row["AVG_DAILY_DEMAND"] can be used as a number: the field is there.
\* A row without it stands for a missing field (KeyError on lookup) or a
\* None value (TypeError on multiplication).
HasDemand(row) == "AVG_DAILY_DEMAND" \in DOMAIN row

\* horizon of the dashboard's forecast columns
HorizonDays == 7

\* the except-branch of safe_cortex_forecast: it reads the demand again
forecast_fallback(row) ==
    IF ~HasDemand(row) THEN Raise("KeyError/TypeError")
    ELSE Return([forecast_units |-> row.AVG_DAILY_DEMAND * 7,
                 lower_bound    |-> row.AVG_DAILY_DEMAND * 5,
                 upper_bound    |-> row.AVG_DAILY_DEMAND * 9,
                 explanation    |-> <<"Fallback estimate based on historical demand">>])

\* the try-branch: name lookup, then the row lookups, then the call
forecast_attempt(app, row) ==
    IF ~imports_cortex_demand_forecast(app) THEN Raise("NameError")
    ELSE IF ~HasDemand(row) THEN Raise("KeyError/TypeError")
    ELSE Return(cortex_demand_forecast(row.AVG_DAILY_DEMAND,
                                       row.LEAD_TIME_DAYS, HorizonDays))

safe_cortex_forecast(app, row) ==
    LET attempt == forecast_attempt(app, row)
    IN  IF attempt.raised THEN forecast_fallback(row) ELSE attempt

(***************************************************************************)
(* Inventory optimisation (streamlit_app.py lines 29-54)                    *)
(***************************************************************************)
RECURSIVE GCD(_, _)
GCD(a, b) == IF b = 0 THEN a ELSE GCD(b, a % b)

\* faulty variant: daily demand used where the annual demand belongs
calculate_eoq_daily(avg_daily_demand, ordering_cost, holding_cost) ==
    IF avg_daily_demand * 365 <= 0 THEN 0
    ELSE RoundSqrt(20 * avg_daily_demand * ordering_cost, holding_cost)

\* faulty variant: the demand divides where it should multiply
calculate_eoq_inverted(avg_daily_demand, ordering_cost, holding_cost) ==
    LET annual_demand == avg_daily_demand * 365
    IN  IF annual_demand <= 0 THEN 0
        ELSE RoundSqrt(2000 * ordering_cost, annual_demand * holding_cost)

\* EOQ in tenths; avg_daily_demand in tenths, costs in whole currency units.
\* 10 * sqrt(2 * (d/10) * 365 * oc / hc) = sqrt(7300 * d * oc / hc)
calculate_eoq(avg_daily_demand, ordering_cost, holding_cost) ==
    LET annual_demand == avg_daily_demand * 365
    IN  IF annual_demand <= 0 THEN 0
        ELSE RoundSqrt(20 * annual_demand * ordering_cost, holding_cost)

\* default arguments of calculate_eoq
DefaultOrderingCost == 500
DefaultHoldingCost == 50
\* default service level 1.65, in hundredths
DefaultServiceLevel == 165

\* faulty variant: the lead time enters without its square root
calculate_safety_stock_linear(avg_daily_demand, lead_time_days, service_level) ==
    LET a == 3 * service_level * avg_daily_demand
        g == GCD(a, 1000)
    IN  RoundHalfEven((a \div g) * lead_time_days, 1000 \div g)

\* safety stock in tenths; service_level in hundredths.
\* 10 * (sl/100) * (0.3 * d/10) * sqrt(L) = (3 * sl * d / 1000) * sqrt(L)
\* Where the exact value is halfway between two tenths (4.95 for demand 5.0
\* and lead time 4) the double product is just below it (4.949999999999999,
\* 1.65 and 0.3 being stored below their decimal values), so round() gives
\* the lower tenth.
calculate_safety_stock(avg_daily_demand, lead_time_days, service_level) ==
    LET a == 3 * service_level * avg_daily_demand   \* demand_std * sl, scaled
        g == GCD(a, 1000)
        n == a \div g
        d == 1000 \div g
    IN  RoundSqrtBelow(n * n * lead_time_days, d * d)

\* faulty variant: the safety stock left out of the sum
calculate_reorder_point_bare(avg_daily_demand, lead_time_days, safety_stock) ==
    RoundHalfEven(avg_daily_demand * lead_time_days, 10)

\* reorder point in tenths; avg_daily_demand here in HUNDREDTHS (the demo
\* data carries demand with two decimals), safety_stock in tenths.  The sum
\* is in hundredths and round(.., 1) takes it to the nearest tenth, an
\* exact half going to the even tenth (round(0.25, 1) = 0.2).
calculate_reorder_point(avg_daily_demand, lead_time_days, safety_stock) ==
    RoundHalfEven(avg_daily_demand * lead_time_days + 10 * safety_stock, 10)

(***************************************************************************)
(* Derived metrics of one row (snowflake_core/streamlit_app.py 317-392)     *)
(***************************************************************************)
Statuses == {"Critical", "Warning", "Healthy"}

\* the status_badge dictionary (the emoji written as a colour word)
status_badge(status) ==
    CASE status = "Critical" -> "red Critical"
      [] status = "Warning"  -> "yellow Warning"
      [] status = "Healthy"  -> "green Healthy"
      [] OTHER               -> "NaN"

LIFE_SAVING_ITEMS == {"Insulin", "Oxygen", "Blood", "Ventilator"}

item_priority(item) ==
    IF item \in LIFE_SAVING_ITEMS THEN "Life-saving" ELSE "Essential"

\* faulty variant: the lead time divides as it is, 0 included
days_of_cover_unguarded(row) ==
    [num |-> row.CLOSING_STOCK, den |-> row.LEAD_TIME_DAYS]

\* CLOSING_STOCK / LEAD_TIME_DAYS.replace(0, 1), kept as a fraction
days_of_cover(row) ==
    [num |-> row.CLOSING_STOCK,
     den |-> IF row.LEAD_TIME_DAYS = 0 THEN 1 ELSE row.LEAD_TIME_DAYS]

\* DAYS_OF_COVER > 90 (den > 0)
overstock_risk(cover) == cover.num > 90 * cover.den

\* the OVERSTOCK_BADGE lambda (the emoji written as a colour word)
overstock_badge(risk) == IF risk THEN "purple Overstock risk" ELSE ""

\* faulty variant: strict comparison, equality no longer orders
reorder_recommendation_strict(closing_stock, reorder_point) ==
    IF 10 * closing_stock < reorder_point THEN "Order now"
    ELSE "Stock sufficient"

\* CLOSING_STOCK (units) <= REORDER_POINT (tenths)
reorder_recommendation(closing_stock, reorder_point) ==
    IF 10 * closing_stock <= reorder_point THEN "Order now"
    ELSE "Stock sufficient"

\* One row of df after lines 332-392.  The forecast must not have raised:
\* an exception out of df.apply ends the run before any column is added.
derive(app, row) ==
    LET ai     == safe_cortex_forecast(app, row).value
        cover  == days_of_cover(row)
        eoq    == calculate_eoq(row.AVG_DAILY_DEMAND,
                                DefaultOrderingCost, DefaultHoldingCost)
        safety == calculate_safety_stock(row.AVG_DAILY_DEMAND,
                                         row.LEAD_TIME_DAYS, DefaultServiceLevel)
        rop    == calculate_reorder_point(10 * row.AVG_DAILY_DEMAND,
                                          row.LEAD_TIME_DAYS, safety)
    IN  [LOCATION         |-> row.LOCATION,
         ITEM             |-> row.ITEM,
         CLOSING_STOCK    |-> row.CLOSING_STOCK,
         AVG_DAILY_DEMAND |-> row.AVG_DAILY_DEMAND,
         DAYS_TO_STOCKOUT |-> row.DAYS_TO_STOCKOUT,
         STOCK_STATUS     |-> row.STOCK_STATUS,
         LEAD_TIME_DAYS   |-> row.LEAD_TIME_DAYS,
         AI_FORECAST      |-> ai,
         FORECAST_7D      |-> ai.forecast_units,
         FORECAST_LOW     |-> ai.lower_bound,
         FORECAST_HIGH    |-> ai.upper_bound,
         AI_EXPLANATION   |-> ai.explanation,
         DAYS_OF_COVER    |-> cover,
         STATUS_BADGE     |-> status_badge(row.STOCK_STATUS),
         ITEM_PRIORITY    |-> item_priority(row.ITEM),
         OVERSTOCK_RISK   |-> overstock_risk(cover),
         OVERSTOCK_BADGE  |-> overstock_badge(overstock_risk(cover)),
         EOQ              |-> eoq,
         SAFETY_STOCK     |-> safety,
         REORDER_POINT    |-> rop,
         REORDER_RECOMMENDATION |->
             reorder_recommendation(row.CLOSING_STOCK, rop)]

\* the columns of df in the order the script creates them: the seven
\* loaded ones (lines 154-164), then the derived ones (lines 332-385)
DfColumns ==
    <<"LOCATION", "ITEM", "CLOSING_STOCK", "AVG_DAILY_DEMAND",
      "DAYS_TO_STOCKOUT", "STOCK_STATUS", "LEAD_TIME_DAYS", "AI_FORECAST",
      "FORECAST_7D", "FORECAST_LOW", "FORECAST_HIGH", "AI_EXPLANATION",
      "DAYS_OF_COVER", "STATUS_BADGE", "ITEM_PRIORITY", "OVERSTOCK_RISK",
      "OVERSTOCK_BADGE", "EOQ", "SAFETY_STOCK", "REORDER_POINT",
      "REORDER_RECOMMENDATION">>

(***************************************************************************)
(* The Dashboard's early-warning table and export (lines 532-604)           *)
(***************************************************************************)
\* df[df["STOCK_STATUS"].isin(["Critical", "Warning"])], rows in df's order
risk_df(table) ==
    SelectSeq(table, LAMBDA row : row.STOCK_STATUS \in {"Critical", "Warning"})

\* the column selection of the table shown on screen
RiskTableColumns ==
    <<"LOCATION", "ITEM", "ITEM_PRIORITY", "STATUS_BADGE", "CLOSING_STOCK",
      "DAYS_TO_STOCKOUT">>

\* DataFrame.to_csv(index=False): a header line of all the frame's columns
\* and one line of cells per row, in the frame's column order
to_csv(rows, columns) ==
    [header |-> columns,
     lines  |-> [k \in 1 .. Len(rows) |->
                    [c \in 1 .. Len(columns) |-> rows[k][columns[c]]]]]

\* the data of the download button in a run of the Dashboard page
download_data(table) == to_csv(risk_df(table), DfColumns)

(***************************************************************************)
(* The source table and the Actions page                                    *)
(***************************************************************************)
\* the script that holds the Actions page
MainApp == "snowflake_core/streamlit_app.py"

\* rows delivered by load_stock_health: status and days-to-stockout are the
\* data source's, not derived here
SourceRow(loc, item, stock, demand, days, status, lead) ==
    [LOCATION |-> loc, ITEM |-> item, CLOSING_STOCK |-> stock,
     AVG_DAILY_DEMAND |-> demand, DAYS_TO_STOCKOUT |-> days,
     STOCK_STATUS |-> status, LEAD_TIME_DAYS |-> lead]

SourceTables ==
    { <<SourceRow("District Hospital", "Oxygen", 10, 30, 30, s1, 14),
        SourceRow("Urban Clinic", "Bandage", 0, 5, 0, s2, 0),
        SourceRow("Community Health Centre", "Paracetamol", 500, 20, 2500,
                  "Healthy", 5)>> :
      s1 \in {"Critical", "Warning"}, s2 \in {"Critical", "Healthy"} }
    \cup
    \* a table whose only row at risk is Paracetamol, short of stock at a
    \* demand of 10.7 a day (19 units, 1.8 days)
    { <<SourceRow("District Hospital", "Oxygen", 500, 30, 1667, "Healthy", 14),
        SourceRow("Urban Clinic", "Bandage", 0, 5, 0, "Healthy", 0),
        SourceRow("Community Health Centre", "Paracetamol", 19, 107, 18,
                  "Critical", 1)>> }

Index == 1 .. 3

\* no row selected (the selectbox is not on the page)
NoSelection == 0

\* the five action types of the form; two are tried
ActionTypes == {"Received stock", "Manual adjustment"}

\* quantity is a whole number >= 1 (min_value=1, step=1)
Quantities == {5, 35, 100}

\* the name field as typed, a sequence of characters
Users == {<<>>, <<" ">>, <<" ", "M", "S">>}

\* str.strip(): drop leading and trailing blanks
RECURSIVE lstrip(_)
lstrip(u) == IF u # <<>> /\ Head(u) = " " THEN lstrip(Tail(u)) ELSE u

RECURSIVE rstrip(_)
rstrip(u) ==
    IF u # <<>> /\ u[Len(u)] = " " THEN rstrip(SubSeq(u, 1, Len(u) - 1)) ELSE u

\* faulty variant: the name is tested as typed, blanks included
strip_nothing(u) == u

strip(u) == rstrip(lstrip(u))

EmptyState == [k \in {} |-> {}]

Has(key) == key \in DOMAIN session_state

\* faulty variant: every row is offered, whatever its status
at_risk_unfiltered(table) == DOMAIN table

\* index of the rows offered by the "Select item" selectbox
at_risk(table) ==
    {i \in DOMAIN table : table[i].STOCK_STATUS \in {"Critical", "Warning"}}

Min(S) == CHOOSE x \in S : \A y \in S : x <= y

\* the selectbox value of a run: the kept choice while it is still an
\* option, else the first option
selection(table, kept) ==
    IF kept \in at_risk(table) THEN kept ELSE Min(at_risk(table))

NoCall == [fn |-> "none"]

\* the last run read no submitted form
NoForm == [submitted |-> FALSE]

FormValues(action_type, quantity, user) ==
    [submitted |-> TRUE, action_type |-> action_type,
     quantity |-> quantity, user |-> user]

Init ==
    /\ df \in {[i \in Index |-> derive(MainApp, t[i])] : t \in SourceTables}
    /\ session_state = EmptyState
    /\ page = "Dashboard"
    /\ selected_index = NoSelection
    /\ message = "none"
    /\ form = NoForm
    /\ call = NoCall

\* lines 628-632: first visit creates the log and copies df
ensure_state(ss, table) ==
    LET withLog == IF "action_log" \in DOMAIN ss THEN ss
                   ELSE ("action_log" :> <<>>) @@ ss
    IN  IF "working_df" \in DOMAIN withLog THEN withLog
        ELSE ("working_df" :> table) @@ withLog

\* a run of the script with page p chosen and nothing submitted
Navigate(p) ==
    /\ page' = p
    /\ message' = "none"
    /\ form' = NoForm
    /\ IF p = "Actions"
       THEN /\ session_state' = ensure_state(session_state, df)
            /\ selected_index' =
                 IF at_risk(session_state'.working_df) = {} THEN NoSelection
                 ELSE selection(session_state'.working_df,
                                IF page = "Actions" THEN selected_index
                                ELSE NoSelection)
       ELSE /\ session_state' = session_state
            /\ selected_index' = NoSelection
    /\ UNCHANGED <<df, call>>

\* the user picks another row in "Select item" (a rerun, nothing submitted)
SelectItem(i) ==
    /\ page = "Actions"
    /\ i \in at_risk(session_state.working_df)
    /\ selected_index' = i
    /\ message' = "none"
    /\ form' = NoForm
    /\ UNCHANGED <<df, session_state, page, call>>

\* faulty variant: thresholds taken inclusively (>= 15, >= 5)
new_status_inclusive(closing_stock, avg_demand) ==
    IF 10 * closing_stock >= 15 * avg_demand THEN "Healthy"
    ELSE IF 10 * closing_stock >= 5 * avg_demand THEN "Warning"
    ELSE "Critical"

\* lines 736-744 on the unrounded new_days = closing_stock / avg_demand
\* (closing_stock in units, avg_demand in tenths)
new_status(closing_stock, avg_demand) ==
    IF 10 * closing_stock > 15 * avg_demand THEN "Healthy"
    ELSE IF 10 * closing_stock > 5 * avg_demand THEN "Warning"
    ELSE "Critical"

\* faulty variant: the Warning branch writes the Critical badge
new_badge_copied(status) ==
    CASE status = "Healthy" -> "green Healthy"
      [] status = "Warning" -> "red Critical"
      [] status = "Critical" -> "red Critical"

\* the badge literal written next to each status in lines 736-744
new_badge(status) ==
    CASE status = "Healthy" -> "green Healthy"
      [] status = "Warning" -> "yellow Warning"
      [] status = "Critical" -> "red Critical"

\* faulty variant: the quantity replaces the stock instead of adding to it
updated_row_overwritten(row, quantity) ==
    LET closing_stock == quantity
        avg_demand    == Max(row.AVG_DAILY_DEMAND, 10)
        status        == new_status(closing_stock, avg_demand)
    IN  [row EXCEPT !.CLOSING_STOCK    = closing_stock,
                    !.DAYS_TO_STOCKOUT = RoundHalfEven(100 * closing_stock,
                                                       avg_demand),
                    !.STOCK_STATUS     = status,
                    !.STATUS_BADGE     = new_badge(status)]

\* faulty variant: the floored demand is written back to the row
updated_row_demand_floored(row, quantity) ==
    LET closing_stock == row.CLOSING_STOCK + quantity
        avg_demand    == Max(row.AVG_DAILY_DEMAND, 10)
        status        == new_status(closing_stock, avg_demand)
    IN  [row EXCEPT !.CLOSING_STOCK    = closing_stock,
                    !.AVG_DAILY_DEMAND = avg_demand,
                    !.DAYS_TO_STOCKOUT = RoundHalfEven(100 * closing_stock,
                                                       avg_demand),
                    !.STOCK_STATUS     = status,
                    !.STATUS_BADGE     = new_badge(status)]

\* lines 728-744: the selected row after the update
updated_row(row, quantity) ==
    LET closing_stock == row.CLOSING_STOCK + quantity
        avg_demand    == Max(row.AVG_DAILY_DEMAND, 10)
        status        == new_status(closing_stock, avg_demand)
    IN  [row EXCEPT !.CLOSING_STOCK    = closing_stock,
                    !.DAYS_TO_STOCKOUT = RoundHalfEven(100 * closing_stock,
                                                       avg_demand),
                    !.STOCK_STATUS     = status,
                    !.STATUS_BADGE     = new_badge(status)]

\* lines 750-757 (the wall-clock "Time" field is left out)
log_entry(item, action_type, quantity, user) ==
    [Location |-> item.LOCATION,
     Item     |-> item.ITEM,
     Action   |-> action_type,
     Quantity |-> <<"+", quantity>>,
     User     |-> user]

\* faulty variant: action_log.append(entry)
append_back(log, entry) == log \o <<entry>>

\* action_log.insert(0, entry)
insert_front(log, entry) == <<entry>> \o log

\* "Apply action" pressed: the run from line 628 to line 774
Submit(action_type, quantity, user) ==
    /\ page = "Actions"
    /\ LET table == session_state.working_df
       IN  IF at_risk(table) = {}
           THEN \* st.stop() before the form is read
                /\ message' = "none"
                /\ form' = NoForm
                /\ selected_index' = NoSelection
                /\ session_state' = session_state
           ELSE LET sel  == selection(table, selected_index)
                    item == table[sel]
                IN  /\ selected_index' = sel
                    /\ form' = FormValues(action_type, quantity, user)
                    /\ IF strip(user) = <<>>
                       THEN /\ message' = "error"
                            /\ session_state' = session_state
                       ELSE /\ Len(session_state.action_log) < MaxActions
                            /\ message' = "success"
                            /\ session_state' =
                                 [session_state EXCEPT
                                   !.working_df =
                                      [table EXCEPT ![sel] =
                                          updated_row(item, quantity)],
                                   !.action_log =
                                      insert_front(@, log_entry(item,
                                          action_type, quantity, user))]
    /\ UNCHANGED <<df, page, call>>

Pages == {"Dashboard", "Actions", "Settings"}

Next ==
    \/ \E p \in Pages : Navigate(p)
    \/ \E i \in Index : SelectItem(i)
    \/ \E a \in ActionTypes, q \in Quantities, u \in Users : Submit(a, q, u)

Spec == Init /\ [][Next]_vars

(***************************************************************************)
(* Data acquisition (snowflake_core/streamlit_app.py lines 76-166,          *)
(* Y_CGZG820LDNV3KF/streamlit_app.py lines 17-18)                           *)
(***************************************************************************)
\* the script of the Smart Alerts page
AlertsApp == "Y_CGZG820LDNV3KF/streamlit_app.py"

\* What surrounds a page load: whether get_active_session() succeeds,
\* whether snowflake.snowpark.session can be imported, whether SNOWFLAKE_*
\* variables are set and make a session ("unset", "valid", "invalid"),
\* and whether the query on STOCK_HEALTH_DT succeeds on a session.
Environments ==
    [active : BOOLEAN, session_class : BOOLEAN,
     cfg : {"unset", "valid", "invalid"}, query : BOOLEAN]

\* the demo dataframe of load_stock_health (demand and days in tenths)
DemoTable ==
    <<SourceRow("Central Medical Store", "Insulin", 100, 50, 200,
                "Healthy", 7),
      SourceRow("District Hospital", "Oxygen", 10, 30, 30, "Critical", 14),
      SourceRow("Community Health Centre", "Paracetamol", 500, 20, 2500,
                "Healthy", 5)>>

\* the rows of STOCK_HEALTH_DT, whatever they are
QueriedTable == <<"STOCK_HEALTH_DT">>

\* return None of get_session
NoSession == "None"

\* get_session(): the active session, else one built from the environment
\* variables, else None with a warning
get_session(env) ==
    IF env.active THEN "active session"
    ELSE IF env.cfg # "unset" /\ env.session_class
    THEN (IF env.cfg = "valid" THEN "environment session" ELSE NoSession)
    ELSE NoSession

\* load_stock_health(): the demo rows without a session, else the query,
\* which is not guarded
load_stock_health(session, env) ==
    IF session = NoSession THEN Return(DemoTable)
    ELSE IF env.query THEN Return(QueriedTable)
    ELSE Raise("SnowparkSQLException")

\* conn_label of the data status panel
conn_label(session) == IF session # NoSession THEN "Snowflake" ELSE "LOCAL demo"

\* One load of a page: the main application goes through get_session and
\* load_stock_health; the alerts page calls get_active_session() directly
\* and evaluates its built-in sample table.
load_page(app, env) ==
    IF app = AlertsApp
    THEN IF env.active
         THEN [failed |-> FALSE, session |-> "active session",
               label |-> "Snowflake", data |-> <<"sample_data">>]
         ELSE [failed |-> TRUE, error |-> "SnowparkSessionException"]
    ELSE LET session == get_session(env)
             loaded  == load_stock_health(session, env)
         IN  IF loaded.raised
             THEN [failed |-> TRUE, error |-> loaded.error]
             ELSE [failed |-> FALSE, session |-> session,
                   label |-> conn_label(session), data |-> loaded.value]

\* one evaluation per behaviour
CallLoadPage ==
    /\ call = NoCall
    /\ \E app \in {MainApp, AlertsApp}, env \in Environments :
         call' = [fn |-> "load_page", app |-> app, env |-> env,
                  result |-> load_page(app, env)]
    /\ UNCHANGED <<df, session_state, page, selected_index, message, form>>

(***************************************************************************)
(* Evaluations of the metric functions on bounded inputs                    *)
(***************************************************************************)
\* rows given to safe_cortex_forecast: with the demand, or without it
ForecastRows ==
    [AVG_DAILY_DEMAND : Demands, LEAD_TIME_DAYS : Leads]
        \cup [LEAD_TIME_DAYS : Leads]

\* one evaluation per behaviour: the functions keep no state
CallForecast ==
    /\ call = NoCall
    /\ \E d \in Demands, l \in Leads, h \in Horizons :
         call' = [fn |-> "cortex_demand_forecast",
                  avg_daily_demand |-> d, lead_time_days |-> l,
                  horizon_days |-> h,
                  result |-> cortex_demand_forecast(d, l, h)]
    /\ UNCHANGED <<df, session_state, page, selected_index, message, form>>

\* one evaluation per behaviour: the functions keep no state
CallSafeForecast ==
    /\ call = NoCall
    /\ \E app \in Apps, row \in ForecastRows :
         call' = [fn |-> "safe_cortex_forecast", app |-> app, row |-> row,
                  attempt |-> forecast_attempt(app, row),
                  result |-> safe_cortex_forecast(app, row)]
    /\ UNCHANGED <<df, session_state, page, selected_index, message, form>>

\* one evaluation per behaviour: the functions keep no state
CallEoq ==
    /\ call = NoCall
    /\ \E d \in Demands \cup {0 - 10}, oc \in OrderingCosts \cup {DefaultOrderingCost},
          hc \in HoldingCosts \cup {DefaultHoldingCost} :
         call' = [fn |-> "calculate_eoq", avg_daily_demand |-> d,
                  ordering_cost |-> oc, holding_cost |-> hc,
                  result |-> calculate_eoq(d, oc, hc)]
    /\ UNCHANGED <<df, session_state, page, selected_index, message, form>>

\* one evaluation per behaviour: the functions keep no state
CallSafetyStock ==
    /\ call = NoCall
    /\ \E d \in Demands, l \in Leads, sl \in ServiceLevels :
         call' = [fn |-> "calculate_safety_stock", avg_daily_demand |-> d,
                  lead_time_days |-> l, service_level |-> sl,
                  result |-> calculate_safety_stock(d, l, sl)]
    /\ UNCHANGED <<df, session_state, page, selected_index, message, form>>

\* one evaluation per behaviour: the functions keep no state
CallReorderPoint ==
    /\ call = NoCall
    /\ \E d \in FineDemands, l \in Leads, ss \in SafetyStocks :
         call' = [fn |-> "calculate_reorder_point", avg_daily_demand |-> d,
                  lead_time_days |-> l, safety_stock |-> ss,
                  result |-> calculate_reorder_point(d, l, ss)]
    /\ UNCHANGED <<df, session_state, page, selected_index, message, form>>

\* the derivation pass on one row of either script
\* one evaluation per behaviour: the functions keep no state
CallDerive ==
    /\ call = NoCall
    /\ \E app \in Apps, stock \in 0 .. MaxStock, d \in Demands, l \in Leads :
         call' = [fn |-> "derive", app |-> app,
                  result |-> derive(app, SourceRow("District Hospital",
                                 "Oxygen", stock, d, 30, "Critical", l))]
    /\ UNCHANGED <<df, session_state, page, selected_index, message, form>>

InitMetrics ==
    /\ Init
    /\ \A i \in Index : df[i].STOCK_STATUS # "Warning"
    /\ df[2].STOCK_STATUS = "Critical"

NextMetrics ==
    \/ CallForecast
    \/ CallSafeForecast
    \/ CallEoq
    \/ CallSafetyStock
    \/ CallReorderPoint
    \/ CallLoadPage
    \/ CallDerive

SpecMetrics == InitMetrics /\ [][NextMetrics]_vars

(***************************************************************************)
(* Properties of the Actions page (specification Spec)                      *)
(***************************************************************************)
WorkingTable == session_state.working_df

ActionLog == session_state.action_log

\* nothing but blanks (or nothing) typed
IsBlank(u) == \A k \in 1 .. Len(u) : u[k] = " "

\* the row the last run applied its action to
AppliedRow == WorkingTable[selected_index]

\* C1: after a successfully applied action the row's status is exactly one
\* of Healthy, Warning, Critical, fixed by d = new closing_stock /
\* max(avg_daily_demand, 1): Healthy iff d > 15, Warning iff 5 < d <= 15,
\* Critical iff d <= 5.
C1_StatusByThresholds ==
    message = "success" =>
        LET stock10 == 10 * AppliedRow.CLOSING_STOCK       \* d * divisor
            divisor == Max(AppliedRow.AVG_DAILY_DEMAND, 10)
            status  == AppliedRow.STOCK_STATUS
        IN  /\ status \in Statuses
            /\ status = "Healthy" <=> stock10 > 15 * divisor
            /\ status = "Warning" <=>
                 (5 * divisor < stock10 /\ stock10 <= 15 * divisor)
            /\ status = "Critical" <=> stock10 <= 5 * divisor

\* C1 case: an applied action left d exactly 5, and the row is Critical
C1_Witness ==
    /\ message = "success"
    /\ AppliedRow.CLOSING_STOCK > 0
    /\ 10 * AppliedRow.CLOSING_STOCK = 5 * Max(AppliedRow.AVG_DAILY_DEMAND, 10)
    /\ AppliedRow.STOCK_STATUS = "Critical"

\* C2: in every reachable state of the working table each row's badge is
\* the badge of its status; status and badge never part.
C2_BadgeMatchesStatus ==
    Has("working_df") =>
        \A i \in DOMAIN WorkingTable :
            /\ WorkingTable[i].STOCK_STATUS \in Statuses
            /\ WorkingTable[i].STATUS_BADGE =
                 status_badge(WorkingTable[i].STOCK_STATUS)

\* C2 case: an action has moved a row to another status (here to Warning)
C2_Witness ==
    /\ message = "success"
    /\ AppliedRow.STOCK_STATUS = "Warning"
    /\ df[selected_index].STOCK_STATUS = "Critical"
    /\ AppliedRow.STATUS_BADGE = "yellow Warning"

\* C3: the log gets exactly one entry per applied action, carrying that
\* action's location, item, action type, quantity and actor, placed in front
\* (most recent first); no other run touches the log, and the entries
\* already there keep their content and order.
C3_LogMostRecentFirst ==
    [][IF Has("action_log")
       THEN IF message' = "success"
            THEN /\ ActionLog' =
                      <<[Location |-> WorkingTable[selected_index'].LOCATION,
                         Item     |-> WorkingTable[selected_index'].ITEM,
                         Action   |-> form'.action_type,
                         Quantity |-> <<"+", form'.quantity>>,
                         User     |-> form'.user]>> \o ActionLog
                 /\ WorkingTable'[selected_index'].CLOSING_STOCK =
                      WorkingTable[selected_index'].CLOSING_STOCK
                          + form'.quantity
            ELSE /\ ActionLog' = ActionLog
                 /\ WorkingTable' = WorkingTable
       ELSE ("action_log" \in DOMAIN session_state') => ActionLog' = <<>>
      ]_vars

\* C3 case: two actions applied, the later one (+5) ahead of the earlier (+35)
C3_Witness ==
    /\ Has("action_log")
    /\ Len(ActionLog) = 2
    /\ ActionLog[1].Quantity = <<"+", 5>>
    /\ ActionLog[2].Quantity = <<"+", 35>>
    /\ ActionLog[1].Item # ActionLog[2].Item

\* C4: a submission whose actor name is empty or blank is answered with the
\* error message, and the working table and the action log stay as they were.
C4_BlankUserRejected ==
    [][(form'.submitted /\ IsBlank(form'.user)) =>
          /\ message' = "error"
          /\ session_state' = session_state
          /\ df' = df
      ]_vars

\* C4 case: a blank (not empty) name rejected while the log holds an entry
C4_Witness ==
    /\ form.submitted
    /\ form.user = <<" ">>
    /\ message = "error"
    /\ Len(ActionLog) = 1
    /\ WorkingTable # df

\* C5: in every reachable state of the working table a row's recommendation
\* is "Order now" exactly when its current closing_stock <= reorder_point.
C5_RecommendationFollowsStock ==
    Has("working_df") =>
        \A i \in DOMAIN WorkingTable :
            WorkingTable[i].REORDER_RECOMMENDATION = "Order now"
                <=> 10 * WorkingTable[i].CLOSING_STOCK
                        <= WorkingTable[i].REORDER_POINT

(***************************************************************************)
(* Properties of the metric functions (specification SpecMetrics)           *)
(***************************************************************************)
\* x is a nearest integer to num/den (den > 0): |x - num/den| <= 1/2
Nearest(x, num, den) == 2 * Abs(x * den - num) <= den

\* x is a nearest integer to sqrt(num/den) (x >= 0, num >= 0, den > 0)
NearestSqrt(x, num, den) ==
    /\ x >= 0
    /\ (x = 0 \/ (2 * x - 1) * (2 * x - 1) * den <= 4 * num)
    /\ 4 * num <= (2 * x + 1) * (2 * x + 1) * den

\* the forecast triple of one call, each value within half a tenth of
\* demand * horizon, 0.8 and 1.2 times it (all in tenths)
ForecastValuesRight ==
    LET product == call.avg_daily_demand * call.horizon_days
    IN  /\ Nearest(call.result.forecast_units, product, 1)
        /\ Nearest(call.result.lower_bound, 8 * product, 10)
        /\ Nearest(call.result.upper_bound, 12 * product, 10)
        /\ (call.avg_daily_demand = 50 /\ call.horizon_days = 7) =>
              /\ call.result.forecast_units = 350
              /\ call.result.lower_bound = 280
              /\ call.result.upper_bound = 420
        /\ call.avg_daily_demand = 0 =>
              /\ call.result.forecast_units = 0
              /\ call.result.lower_bound = 0
              /\ call.result.upper_bound = 0

ForecastOrdered ==
    /\ call.result.lower_bound <= call.result.forecast_units
    /\ call.result.forecast_units <= call.result.upper_bound

\* C6: the derivation pass gives every row exactly one recommendation,
\* "Order now" when closing_stock <= reorder_point (equality included) and
\* "Stock sufficient" when closing_stock > reorder_point, the reorder point
\* being the one computed for the same row.
C6_RecommendationByThreshold ==
    call.fn = "derive" =>
        LET r == call.result
        IN  /\ r.REORDER_RECOMMENDATION \in {"Order now", "Stock sufficient"}
            /\ r.REORDER_POINT =
                 r.AVG_DAILY_DEMAND * r.LEAD_TIME_DAYS + r.SAFETY_STOCK
            /\ 10 * r.CLOSING_STOCK <= r.REORDER_POINT
                 => r.REORDER_RECOMMENDATION = "Order now"
            /\ 10 * r.CLOSING_STOCK > r.REORDER_POINT
                 => r.REORDER_RECOMMENDATION = "Stock sufficient"

\* C6 case: closing stock 3 on a reorder point of exactly 3.0
C6_Witness ==
    /\ call.fn = "derive"
    /\ call.result.CLOSING_STOCK = 3
    /\ call.result.REORDER_POINT = 30
    /\ call.result.REORDER_RECOMMENDATION = "Order now"

\* C7 as stated: for every demand >= 0, lead time >= 0 and horizon_days
\* the forecast is demand * horizon with bounds 0.8 and 1.2 times it, each
\* rounded to 1 decimal, and lower_bound <= forecast_units <= upper_bound.
C7_ForecastBandAnyHorizon ==
    call.fn = "cortex_demand_forecast" =>
        ForecastValuesRight /\ ForecastOrdered

\* C7 amended: the three values are as stated for every horizon; they are
\* ordered lower_bound <= forecast_units <= upper_bound when
\* horizon_days >= 0.
C7_ForecastBand ==
    call.fn = "cortex_demand_forecast" =>
        /\ ForecastValuesRight
        /\ call.horizon_days >= 0 => ForecastOrdered

\* C7 case: demand 5.0 over 7 days gives 35.0, 28.0, 42.0
C7_Witness ==
    /\ call.fn = "cortex_demand_forecast"
    /\ call.avg_daily_demand = 50
    /\ call.horizon_days = 7
    /\ call.result.lower_bound = 280
    /\ call.result.upper_bound = 420

\* C8: for every row with demand and lead time present, forecast_7d,
\* forecast_low and forecast_high are the 7-day forecast and 0.8 and 1.2
\* times it (rounded to 1 decimal), not the fixed-multiplier fallback.
C8_ColumnsAreForecast ==
    call.fn = "derive" =>
        LET r       == call.result
            product == r.AVG_DAILY_DEMAND * HorizonDays
        IN  /\ Nearest(r.FORECAST_7D, product, 1)
            /\ Nearest(r.FORECAST_LOW, 8 * product, 10)
            /\ Nearest(r.FORECAST_HIGH, 12 * product, 10)

\* C9: whenever the forecast computation raises, safe_cortex_forecast
\* returns (does not raise) the record demand * 7, demand * 5, demand * 9
\* with a non-empty explanation.
C9_FallbackNeverRaises ==
    (call.fn = "safe_cortex_forecast" /\ call.attempt.raised) =>
        /\ ~call.result.raised
        /\ call.result.value.forecast_units = call.row.AVG_DAILY_DEMAND * 7
        /\ call.result.value.lower_bound = call.row.AVG_DAILY_DEMAND * 5
        /\ call.result.value.upper_bound = call.row.AVG_DAILY_DEMAND * 9
        /\ call.result.value.explanation # <<>>

\* C10: calculate_eoq returns 0 whenever avg_daily_demand * 365 <= 0 and
\* otherwise sqrt(2 * avg_daily_demand * 365 * ordering_cost / holding_cost)
\* rounded to 1 decimal; demand 5 with the defaults 500 and 50 gives 191.0.
C10_EoqFormula ==
    call.fn = "calculate_eoq" =>
        /\ call.avg_daily_demand * 365 <= 0 => call.result = 0
        /\ call.avg_daily_demand * 365 > 0 =>
              NearestSqrt(call.result,
                          7300 * call.avg_daily_demand * call.ordering_cost,
                          call.holding_cost)
        /\ (/\ call.avg_daily_demand = 50
            /\ call.ordering_cost = DefaultOrderingCost
            /\ call.holding_cost = DefaultHoldingCost) => call.result = 1910

\* C10 case: demand 5 with the default costs, EOQ 191.0
C10_Witness ==
    /\ call.fn = "calculate_eoq"
    /\ call.avg_daily_demand = 50
    /\ call.ordering_cost = 500
    /\ call.holding_cost = 50
    /\ call.result = 1910

\* C11: for fixed positive costs calculate_eoq is monotonically
\* non-decreasing in avg_daily_demand: whenever a <= b with a >= 0, the EOQ
\* for a is at most the EOQ for b; and the EOQ for demand 0 is 0.
C11_EoqMonotone ==
    (call.fn = "calculate_eoq" /\ call.avg_daily_demand >= 0) =>
        /\ \A b \in Demands :
              call.avg_daily_demand <= b =>
                  call.result <= calculate_eoq(b, call.ordering_cost,
                                               call.holding_cost)
        /\ call.avg_daily_demand = 0 => call.result = 0

\* C11 case: demand 2.0 evaluated, its EOQ strictly below the EOQ that
\* demand 5.0 has at the same costs
C11_Witness ==
    /\ call.fn = "calculate_eoq"
    /\ call.avg_daily_demand = 20
    /\ call.result > 0
    /\ call.result < calculate_eoq(50, call.ordering_cost, call.holding_cost)

\* x (tenths) is a nearest tenth to (sl/100) * (0.3 * d/10) * sqrt(lead),
\* d in tenths and sl in hundredths.  3 * sl * d is a multiple of 25 for
\* the demands (multiples of 0.5) and service levels (multiples of 0.05)
\* used, so the value is (k / 40) * sqrt(lead) with k = 3 * sl * d / 25.
IsSafetyStock(x, d, lead, sl) ==
    LET k == (3 * sl * d) \div 25
    IN  NearestSqrt(x, k * k * lead, 1600)

\* C12: calculate_safety_stock returns service_level * (0.3 *
\* avg_daily_demand) * sqrt(lead_time_days) rounded to 1 decimal, the
\* service level being 1.65 unless given: demand 5 and lead time 7 give
\* 6.5, and a lead time of 0 or a demand of 0 gives 0.  The SAFETY_STOCK
\* column is that value at the default service level.
C12_SafetyStockFormula ==
    /\ call.fn = "calculate_safety_stock" =>
          /\ IsSafetyStock(call.result, call.avg_daily_demand,
                            call.lead_time_days, call.service_level)
          /\ (/\ call.avg_daily_demand = 50
              /\ call.lead_time_days = 7
              /\ call.service_level = 165) => call.result = 65
          /\ (call.avg_daily_demand = 0 \/ call.lead_time_days = 0)
                => call.result = 0
    /\ call.fn = "derive" =>
          IsSafetyStock(call.result.SAFETY_STOCK,
                        call.result.AVG_DAILY_DEMAND,
                        call.result.LEAD_TIME_DAYS, 165)

\* C12 case: demand 5 and lead time 7 at service level 1.65, result 6.5
C12_Witness ==
    /\ call.fn = "calculate_safety_stock"
    /\ call.avg_daily_demand = 50
    /\ call.lead_time_days = 7
    /\ call.service_level = 165
    /\ call.result = 65

\* C13: the reorder point of a row equals avg_daily_demand * lead_time_days
\* + safety_stock after rounding to 1 decimal, the safety stock being the
\* already rounded SAFETY_STOCK of the same row; demand 5, lead time 7 and
\* safety stock 6.5 give 41.5.
C13_ReorderPointFormula ==
    /\ call.fn = "calculate_reorder_point" =>
          /\ Nearest(call.result,
                     call.avg_daily_demand * call.lead_time_days
                         + 10 * call.safety_stock, 10)
          /\ (/\ call.avg_daily_demand = 500
              /\ call.lead_time_days = 7
              /\ call.safety_stock = 65) => call.result = 415
    /\ call.fn = "derive" =>
          /\ call.result.REORDER_POINT =
                call.result.AVG_DAILY_DEMAND * call.result.LEAD_TIME_DAYS
                    + call.result.SAFETY_STOCK
          /\ IsSafetyStock(call.result.SAFETY_STOCK,
                           call.result.AVG_DAILY_DEMAND,
                           call.result.LEAD_TIME_DAYS, DefaultServiceLevel)

\* C13 case: the derivation of a row with demand 5.0 and lead time 7:
\* safety stock 6.5 and reorder point 41.5
C13_Witness ==
    /\ call.fn = "derive"
    /\ call.result.AVG_DAILY_DEMAND = 50
    /\ call.result.LEAD_TIME_DAYS = 7
    /\ call.result.SAFETY_STOCK = 65
    /\ call.result.REORDER_POINT = 415

\* x is num/den (>= 0, den > 0) taken to the nearest integer, an exact
\* half going up
IsHalfUp(x, num, den) == x = (2 * num + den) \div (2 * den)

\* x is sqrt(num/den) taken to the nearest integer, an exact half going up
IsHalfUpSqrt(x, num, den) ==
    /\ x >= 0
    /\ (x = 0 \/ (2 * x - 1) * (2 * x - 1) * den <= 4 * num)
    /\ 4 * num < (2 * x + 1) * (2 * x + 1) * den

\* C14: EOQ, safety stock and reorder point all round half-up to 1
\* decimal: a value exactly halfway between two tenths (such as 0.25) goes
\* to the larger one (0.3) in each of the three formulas.
C14_AllRoundHalfUp ==
    /\ (call.fn = "calculate_eoq" /\ call.avg_daily_demand > 0) =>
          IsHalfUpSqrt(call.result,
                       7300 * call.avg_daily_demand * call.ordering_cost,
                       call.holding_cost)
    /\ call.fn = "calculate_safety_stock" =>
          LET k == (3 * call.service_level * call.avg_daily_demand) \div 25
          IN  IsHalfUpSqrt(call.result, k * k * call.lead_time_days, 1600)
    /\ call.fn = "calculate_reorder_point" =>
          IsHalfUp(call.result,
                   call.avg_daily_demand * call.lead_time_days
                       + 10 * call.safety_stock, 10)

\* C15: for every row with lead_time_days >= 0 the days of cover are
\* closing_stock / max(lead_time_days, 1): a lead time of 0 is replaced by
\* 1 and nothing is ever divided by zero.
C15_DaysOfCover ==
    call.fn = "derive" =>
        LET r == call.result
        IN  /\ r.DAYS_OF_COVER.den > 0
            /\ r.DAYS_OF_COVER.num * Max(r.LEAD_TIME_DAYS, 1)
                   = r.CLOSING_STOCK * r.DAYS_OF_COVER.den

\* C15 case: a row with lead time 0 and stock 6 has 6 days of cover
C15_Witness ==
    /\ call.fn = "derive"
    /\ call.result.LEAD_TIME_DAYS = 0
    /\ call.result.CLOSING_STOCK = 6
    /\ call.result.DAYS_OF_COVER = [num |-> 6, den |-> 1]

(***************************************************************************)
(* The working table's derived fields (specification Spec)                  *)
(***************************************************************************)
\* the row's overstock flag agrees with its own stock and lead time
OverstockAsDerived(row) ==
    row.OVERSTOCK_RISK
        <=> row.CLOSING_STOCK > 90 * Max(row.LEAD_TIME_DAYS, 1)

\* C16: in every state of the table, the working table after any sequence
\* of applied actions included, a row's overstock_risk is true exactly when
\* its current closing_stock / max(lead_time_days, 1) exceeds 90.
C16_OverstockFollowsStock ==
    /\ \A i \in DOMAIN df : OverstockAsDerived(df[i])
    /\ Has("working_df") =>
          \A i \in DOMAIN WorkingTable : OverstockAsDerived(WorkingTable[i])

(***************************************************************************)
(* Smart alerts (Y_CGZG820LDNV3KF/streamlit_app.py lines 44-143)            *)
(* Stocks, reorder points, maximum stocks and percentages are whole         *)
(* numbers; dates are day numbers.                                          *)
(***************************************************************************)
\* most evaluations of the alert rules in one session
MaxRuns == 2

\* slider defaults and the Perishable_Days column default
DefaultLowPct == 20
DefaultOverPct == 50
DefaultPerishableDays == 30

\* an optional cell: <<v>> holds v; row.get("MAX_STOCK", np.nan) and
\* row.get("EXPIRY_DATE", None) give the empty one
Known(v) == <<v>>
NaN == <<>>
None == <<>>

\* the day of the first evaluation
Today == 100
Days == {Today, Today + 1}

AlertRow(item, current, reorder_point, max_stock, expiry) ==
    [ITEM |-> item, CURRENT_STOCK |-> current,
     REORDER_POINT |-> reorder_point, MAX_STOCK |-> max_stock,
     EXPIRY_DATE |-> expiry]

\* a row that raises all three alerts under the default rules
AllAlertsRow == AlertRow("Syringes", 10, 100, Known(5), Known(Today))

AlertRows ==
    { AlertRow("Insulin", c, r, NaN, None) :
        c \in {0, 7, 10, 15, 20, 21}, r \in {0, 100} }
    \cup { AlertRow("Oxygen", c, 0, m, None) :
        c \in {5, 113, 150, 151}, m \in {NaN, Known(0), Known(100)} }
    \cup { AlertRow("Saline", 200, 0, NaN, e) :
        e \in {None} \cup { Known(Today + k) :
                 k \in {0 - 1, 0, 1, 2, 30, 31, 32} } }
    \cup { AllAlertsRow }

\* the tables evaluated: one row, or the three-alert row before another
AlertTables ==
    { <<r>> : r \in AlertRows }
    \cup { <<AllAlertsRow, r>> :
             r \in { AlertRow("Insulin", 7, 100, NaN, None),
                     AlertRow("Oxygen", 151, 0, Known(100), None),
                     AlertRow("Saline", 200, 0, NaN, Known(Today + 1)),
                     AlertRow("Saline", 200, 0, NaN, None) } }

AlertItems == {"Insulin", "Oxygen", "Saline", "Syringes"}

\* item_rules as built from the rules editor: no row left (every item
\* falls back to the sliders), or every item's row edited
ItemRules ==
    { [i \in {} |-> [low_pct |-> 0, over_pct |-> 0, perishable_days |-> 0]],
      [i \in AlertItems |->
          [low_pct |-> 14, over_pct |-> 13, perishable_days |-> 1]] }

\* item_rules.get(item, {the slider values, 30})
rules_of(item, item_rules) ==
    IF item \in DOMAIN item_rules THEN item_rules[item]
    ELSE [low_pct |-> DefaultLowPct, over_pct |-> DefaultOverPct,
          perishable_days |-> DefaultPerishableDays]

\* Pairs (current, reorder_point) of the input set for which the double
\* (current / reorder_point) * 100 lies above the exact percentage:
\* (7 / 100) * 100 is 7.000000000000001.  For the other pairs it is exact.
PctAboveExact == {<<7, 100>>}

\* Pairs (max_stock, over_pct) of the input set for which the double
\* max_stock * (1 + over_pct / 100) lies below the exact product:
\* 100 * (1 + 13 / 100) is 112.99999999999999, 5 * 1.13 is
\* 5.6499999999999995.  For the other pairs it is exact.
ThresholdBelowExact == {<<100, 13>>, <<5, 13>>}

\* (current / reorder_point) * 100 as a fraction, with the side on which
\* the double lies when it is not exact
pct_of_reorder(current, reorder_point) ==
    [num |-> 100 * current, den |-> reorder_point,
     above |-> <<current, reorder_point>> \in PctAboveExact]

\* pct <= limit_num / limit_den on the doubles (den > 0, limit_den > 0):
\* the rounding error only decides the case of exact equality
pct_le(pct, limit_num, limit_den) ==
    LET lhs == pct.num * limit_den
        rhs == limit_num * pct.den
    IN  lhs < rhs \/ (lhs = rhs /\ ~pct.above)

\* current > max_stock * (1 + over_pct / 100) on the doubles
exceeds_max(current, max_stock, over_pct) ==
    LET lhs == 100 * current
        rhs == max_stock * (100 + over_pct)
    IN  lhs > rhs
        \/ (lhs = rhs /\ <<max_stock, over_pct>> \in ThresholdBelowExact)

Alert(item, type, severity, today) ==
    [Item |-> item, Type |-> type, Severity |-> severity,
     Created_At |-> today]

\* 1) low stock percentage threshold
low_stock_alert(row, rules, today) ==
    IF row.REORDER_POINT # 0 /\ row.REORDER_POINT > 0
    THEN LET pct_of_reorder_ == pct_of_reorder(row.CURRENT_STOCK,
                                               row.REORDER_POINT)
         IN  IF pct_le(pct_of_reorder_, rules.low_pct, 1)
             THEN <<Alert(row.ITEM, "Low stock",
                          IF pct_le(pct_of_reorder_, rules.low_pct, 2)
                          THEN "Critical" ELSE "Warning", today)>>
             ELSE <<>>
    ELSE <<>>

\* 2) overstock warnings
overstock_alert(row, rules, today) ==
    IF row.MAX_STOCK # NaN /\ row.MAX_STOCK[1] > 0
       /\ exceeds_max(row.CURRENT_STOCK, row.MAX_STOCK[1], rules.over_pct)
    THEN <<Alert(row.ITEM, "Overstock", "Info", today)>>
    ELSE <<>>

\* faulty variant: the last day still counts as a warning
expiry_alert_last_day(row, rules, today) ==
    IF row.EXPIRY_DATE # None
    THEN LET days_left == row.EXPIRY_DATE[1] - today
         IN  IF days_left <= rules.perishable_days
             THEN <<Alert(row.ITEM, "Expiry",
                          IF days_left >= 0 THEN "Warning" ELSE "Critical",
                          today)>>
             ELSE <<>>
    ELSE <<>>

\* 3) expiry alerts for perishables
expiry_alert(row, rules, today) ==
    IF row.EXPIRY_DATE # None
    THEN LET days_left == row.EXPIRY_DATE[1] - today
         IN  IF days_left <= rules.perishable_days
             THEN <<Alert(row.ITEM, "Expiry",
                          IF days_left > 0 THEN "Warning" ELSE "Critical",
                          today)>>
             ELSE <<>>
    ELSE <<>>

\* the alerts one row adds, in the order the loop body appends them
row_alerts(row, item_rules, today) ==
    LET rules == rules_of(row.ITEM, item_rules)
    IN  low_stock_alert(row, rules, today)
            \o overstock_alert(row, rules, today)
            \o expiry_alert(row, rules, today)

\* faulty variant: the list of the evaluation before is continued
alerts_continued(previous) == previous

\* alerts = [] at the start of every call, whatever was returned before
alerts_start(previous) == <<>>

\* the loop over df.iterrows() from row k on
RECURSIVE iterrows(_, _, _, _, _)
iterrows(alerts, table, k, item_rules, today) ==
    IF k > Len(table) THEN alerts
    ELSE iterrows(alerts \o row_alerts(table[k], item_rules, today),
                  table, k + 1, item_rules, today)

\* previous: what the evaluation before returned (<<>> if there was none)
get_smart_alerts(previous, table, item_rules, today) ==
    iterrows(alerts_start(previous), table, 1, item_rules, today)

\* evaluations so far
runs_so_far == IF call.fn = "get_smart_alerts" THEN call.run ELSE 0

\* smart_alerts_df of the run before
previous_alerts == IF call.fn = "get_smart_alerts" THEN call.result ELSE <<>>

\* one run of the alerts page: the rules as the editor holds them now, the
\* table as it is now, the date of the run
GetSmartAlerts ==
    /\ runs_so_far < MaxRuns
    /\ call.fn \in {"none", "get_smart_alerts"}
    /\ \E table \in AlertTables, item_rules \in ItemRules, today \in Days :
         /\ call.fn = "get_smart_alerts" => today >= call.today
         /\ call' = [fn |-> "get_smart_alerts", df |-> table,
                     item_rules |-> item_rules, today |-> today,
                     run |-> runs_so_far + 1,
                     previous |-> previous_alerts,
                     result |-> get_smart_alerts(previous_alerts, table,
                                                 item_rules, today)]
    /\ UNCHANGED <<df, session_state, page, selected_index, message, form>>

InitAlerts == InitMetrics

NextAlerts == GetSmartAlerts

SpecAlerts == InitAlerts /\ [][NextAlerts]_vars

(***************************************************************************)
(* Properties of the alert evaluation (specification SpecAlerts)            *)
(***************************************************************************)
\* the alerts of the last evaluation about one item, of one type
AlertsOf(item, type) ==
    SelectSeq(call.result, LAMBDA a : a.Item = item /\ a.Type = type)

\* the rules that apply to a row of the last evaluation
RulesFor(row) == rules_of(row.ITEM, call.item_rules)

\* C17: a Low-stock alert is emitted for a row exactly when
\* reorder_point > 0 and (current_stock / reorder_point) * 100 <= low_pct
\* of the row's rule; it is Critical exactly when that ratio is
\* <= low_pct / 2 (equality included) and Warning otherwise, so
\* reorder_point 100, stock 15, low_pct 20 gives a Warning.
C17_LowStockAlert ==
    call.fn = "get_smart_alerts" =>
        \A k \in DOMAIN call.df :
            LET row   == call.df[k]
                low   == RulesFor(row).low_pct
                found == AlertsOf(row.ITEM, "Low stock")
            IN  /\ Len(found) > 0
                     <=> /\ row.REORDER_POINT > 0
                         /\ 100 * row.CURRENT_STOCK <= low * row.REORDER_POINT
                /\ \A j \in DOMAIN found :
                     found[j].Severity =
                        IF 200 * row.CURRENT_STOCK <= low * row.REORDER_POINT
                        THEN "Critical" ELSE "Warning"

\* C18: an Overstock alert of severity Info is emitted for a row exactly
\* when max_stock is known and current_stock > max_stock * (1 + over_pct /
\* 100) under the row's rule, for every known max_stock, 0 included.
C18_OverstockAlert ==
    call.fn = "get_smart_alerts" =>
        \A k \in DOMAIN call.df :
            LET row   == call.df[k]
                over  == RulesFor(row).over_pct
                found == AlertsOf(row.ITEM, "Overstock")
            IN  /\ Len(found) > 0
                     <=> /\ row.MAX_STOCK # NaN
                         /\ 100 * row.CURRENT_STOCK
                               > row.MAX_STOCK[1] * (100 + over)
                /\ \A j \in DOMAIN found : found[j].Severity = "Info"

\* C19: an Expiry alert is emitted for a row exactly when the row has an
\* expiry date and days_left = expiry date - today is <= perishable_days
\* of the row's rule; it is Critical when days_left <= 0 and Warning when
\* days_left > 0.
C19_ExpiryAlert ==
    call.fn = "get_smart_alerts" =>
        \A k \in DOMAIN call.df :
            LET row   == call.df[k]
                limit == RulesFor(row).perishable_days
                found == AlertsOf(row.ITEM, "Expiry")
            IN  /\ Len(found) <= 1
                /\ Len(found) > 0
                     <=> /\ row.EXPIRY_DATE # None
                         /\ row.EXPIRY_DATE[1] - call.today <= limit
                /\ \A j \in DOMAIN found :
                     /\ row.EXPIRY_DATE[1] - call.today <= 0
                          => found[j].Severity = "Critical"
                     /\ row.EXPIRY_DATE[1] - call.today > 0
                          => found[j].Severity = "Warning"

\* C19 case: a row expiring on the day of the evaluation, alert Critical
C19_Witness ==
    /\ call.fn = "get_smart_alerts"
    /\ call.df = <<AlertRow("Saline", 200, 0, NaN, Known(call.today))>>
    /\ call.result = <<Alert("Saline", "Expiry", "Critical", call.today)>>

\* what a table, a set of rules and a date give on their own: each row's
\* alerts, row after row
RECURSIVE AlertsOfRows(_, _, _)
AlertsOfRows(table, item_rules, today) ==
    IF table = <<>> THEN <<>>
    ELSE row_alerts(Head(table), item_rules, today)
             \o AlertsOfRows(Tail(table), item_rules, today)

\* C20: every alert evaluation is a fresh, independent pass: its result
\* depends only on the rows, rules and date of that call, so in a sequence
\* of evaluations no alert is suppressed for having been emitted before
\* and none is carried over from an earlier evaluation.
C20_FreshEvaluation ==
    call.fn = "get_smart_alerts" =>
        call.result = AlertsOfRows(call.df, call.item_rules, call.today)

\* C20 case: a second evaluation that emits again exactly the three alerts
\* the evaluation before it emitted
C20_Witness ==
    /\ call.fn = "get_smart_alerts"
    /\ call.run = 2
    /\ Len(call.previous) = 3
    /\ call.result = call.previous

(***************************************************************************)
(* The Dashboard export (specification Spec)                                *)
(***************************************************************************)
\* the indices of the table's Critical and Warning rows
RiskIndices(table) ==
    {i \in DOMAIN table : table[i].STOCK_STATUS \in {"Critical", "Warning"}}

\* C21: the downloadable export contains exactly the rows of the current
\* table whose status is Critical or Warning, and its columns are, in this
\* order and as in the on-screen risk table: location, item, priority,
\* status badge, closing stock, days-to-stockout.
C21_ExportMatchesRiskTable ==
    page = "Dashboard" =>
        LET export == download_data(df)
        IN  /\ export.header = RiskTableColumns
            /\ Len(export.lines) = Cardinality(RiskIndices(df))
            /\ \A k \in DOMAIN export.lines :
                 \E i \in RiskIndices(df) :
                    export.lines[k] =
                       [c \in 1 .. Len(RiskTableColumns) |->
                           df[i][RiskTableColumns[c]]]

(***************************************************************************)
(* Location mapping editor (snowflake_core/streamlit_app.py lines 205-257)  *)
(* The text of the text area is a sequence of JSON tokens.                  *)
(***************************************************************************)
\* longest text built freely from the short token set
MaxTextLen == 3

\* string tokens and the strings they stand for
StringTokens == {"\"Urban Clinic\"", "\"City Clinic\""}

string_of(token) ==
    IF token = "\"Urban Clinic\"" THEN "Urban Clinic" ELSE "City Clinic"

ShortTokens == {"{", "}", ":", "\"Urban Clinic\""}

\* every text of up to MaxTextLen short tokens, and some longer ones:
\* objects with one and two pairs, a number as a value, a trailing comma,
\* an array, a number, null
Texts ==
    UNION {[1 .. n -> ShortTokens] : n \in 0 .. MaxTextLen}
    \cup { <<"{", "\"Urban Clinic\"", ":", "\"City Clinic\"", "}">>,
           <<"{", "\"Urban Clinic\"", ":", "1", "}">>,
           <<"{", "\"Urban Clinic\"", ":", "\"City Clinic\"", ",",
             "\"City Clinic\"", ":", "\"Urban Clinic\"", "}">>,
           <<"{", "\"Urban Clinic\"", ":", "\"City Clinic\"", ",", "}">>,
           <<"[", "]">>,
           <<"[", "\"Urban Clinic\"", ",", "1", "]">>,
           <<"[", "{", "}", "]">>,
           <<"1">>,
           <<"null">> }

\* parsed JSON values
JsonString(v) == [type |-> "string", value |-> v]
JsonNumber(v) == [type |-> "number", value |-> v]
JsonNull == [type |-> "null"]
JsonArray(items) == [type |-> "array", items |-> items]
JsonObject(members) == [type |-> "object", members |-> members]

\* the empty dict
EmptyMap == [k \in {} |-> JsonNull]

\* d[key] = value on a dict (a later duplicate key replaces the earlier)
dict_set(d, key, value) ==
    [k \in DOMAIN d \cup {key} |-> IF k = key THEN value ELSE d[k]]

ParseFail == [ok |-> FALSE]
Parsed(value, next) == [ok |-> TRUE, value |-> value, next |-> next]

\* json.loads on the token sequence: a value starting at token i
RECURSIVE parse_value(_, _), parse_members(_, _, _), parse_items(_, _, _)
parse_value(t, i) ==
    IF i > Len(t) THEN ParseFail
    ELSE CASE t[i] \in StringTokens ->
                 Parsed(JsonString(string_of(t[i])), i + 1)
           [] t[i] = "1" -> Parsed(JsonNumber("1"), i + 1)
           [] t[i] = "null" -> Parsed(JsonNull, i + 1)
           [] t[i] = "{" ->
                 IF i + 1 <= Len(t) /\ t[i + 1] = "}"
                 THEN Parsed(JsonObject(EmptyMap), i + 2)
                 ELSE parse_members(t, i + 1, EmptyMap)
           [] t[i] = "[" ->
                 IF i + 1 <= Len(t) /\ t[i + 1] = "]"
                 THEN Parsed(JsonArray(<<>>), i + 2)
                 ELSE parse_items(t, i + 1, <<>>)
           [] OTHER -> ParseFail

\* "key" : value, then a comma and more members, or the closing brace
parse_members(t, i, acc) ==
    IF i + 1 > Len(t) \/ t[i] \notin StringTokens \/ t[i + 1] # ":"
    THEN ParseFail
    ELSE LET v == parse_value(t, i + 2)
         IN  IF ~v.ok \/ v.next > Len(t) THEN ParseFail
             ELSE LET members == dict_set(acc, string_of(t[i]), v.value)
                  IN  CASE t[v.next] = "," ->
                             parse_members(t, v.next + 1, members)
                        [] t[v.next] = "}" ->
                             Parsed(JsonObject(members), v.next + 1)
                        [] OTHER -> ParseFail

\* value, then a comma and more items, or the closing bracket
parse_items(t, i, acc) ==
    LET v == parse_value(t, i)
    IN  IF ~v.ok \/ v.next > Len(t) THEN ParseFail
        ELSE CASE t[v.next] = "," ->
                     parse_items(t, v.next + 1, Append(acc, v.value))
               [] t[v.next] = "]" ->
                     Parsed(JsonArray(Append(acc, v.value)), v.next + 1)
               [] OTHER -> ParseFail

\* json.loads(user_input): the value, or JSONDecodeError when the text is
\* not one JSON value from its first token to its last
json_loads(t) ==
    LET r == parse_value(t, 1)
    IN  IF r.ok /\ r.next = Len(t) + 1 THEN Return(r.value)
        ELSE Raise("JSONDecodeError")

\* faulty variant: the parsed value is stored whatever its type
apply_mapping_any_json(location_map, user_input) ==
    LET parsed == json_loads(user_input)
    IN  IF parsed.raised
        THEN [location_map |-> location_map, message |-> "Invalid JSON"]
        ELSE [location_map |-> IF parsed.value.type = "object"
                               THEN parsed.value.members ELSE EmptyMap,
              message |-> "Location mapping updated"]

\* the body of `if st.button("Apply location mapping")`: the mapping the
\* session holds afterwards and the message shown
apply_mapping(location_map, user_input) ==
    LET parsed == json_loads(user_input)
    IN  IF parsed.raised
        THEN [location_map |-> location_map, message |-> "Invalid JSON"]
        ELSE IF parsed.value.type # "object"
        THEN [location_map |-> location_map,
              message |-> "Mapping must be a JSON object (dictionary)."]
        ELSE [location_map |-> parsed.value.members,
              message |-> "Location mapping updated"]

\* LOCATION of row i as load_stock_health delivers it
RawLocation(i) == (CHOOSE t \in SourceTables : TRUE)[i].LOCATION

\* lines 205-211: every run relabels the freshly loaded LOCATION column with
\* the mapping the session holds at that moment (location_map.get(x, x))
relabel(table, location_map) ==
    [i \in DOMAIN table |->
        [table[i] EXCEPT !.LOCATION =
            IF RawLocation(i) \in DOMAIN location_map
            THEN location_map[RawLocation(i)].value
            ELSE RawLocation(i)]]

\* the text area's content when the button was pressed
MappingForm(user_input) == [submitted |-> TRUE, user_input |-> user_input]

\* a run in which "Apply location mapping" was pressed on the text typed
ApplyLocationMapping(user_input) ==
    /\ Has("location_map")
    /\ LET outcome == apply_mapping(session_state.location_map, user_input)
       IN  /\ session_state' =
                [session_state EXCEPT !.location_map = outcome.location_map]
           /\ message' = outcome.message
    /\ df' = relabel(df, session_state.location_map)
    /\ form' = MappingForm(user_input)
    /\ UNCHANGED <<page, selected_index, call>>

\* lines 237-239: the first run leaves an empty mapping in the session
InitMapping ==
    /\ df \in {[i \in Index |-> derive(MainApp, t[i])] : t \in SourceTables}
    /\ \A i \in Index : df[i].STOCK_STATUS # "Warning"
    /\ df[2].STOCK_STATUS = "Critical"
    /\ session_state = [k \in {"location_map"} |-> EmptyMap]
    /\ page = "Dashboard"
    /\ selected_index = NoSelection
    /\ message = "none"
    /\ form = NoForm
    /\ call = NoCall

NextMapping == \E user_input \in Texts : ApplyLocationMapping(user_input)

SpecMapping == InitMapping /\ [][NextMapping]_vars

(***************************************************************************)
(* Properties of the location mapping editor (specification SpecMapping)    *)
(***************************************************************************)
\* the text is one JSON value and that value is an object
IsMappingText(t) ==
    /\ ~json_loads(t).raised
    /\ json_loads(t).value.type = "object"

\* C22: applying a malformed location mapping (text that is not valid
\* JSON, or valid JSON that is not an object) is rejected with a
\* descriptive error and the mapping the session held before is retained
\* unchanged; only a well-formed mapping replaces it.
C22_MalformedMappingRejected ==
    [][LET t == form'.user_input
       IN  /\ ~IsMappingText(t) =>
                /\ session_state'.location_map = session_state.location_map
                /\ message' \in {"Invalid JSON",
                                 "Mapping must be a JSON object (dictionary)."}
           /\ json_loads(t).raised => message' = "Invalid JSON"
           /\ IsMappingText(t) =>
                /\ session_state'.location_map = json_loads(t).value.members
                /\ message' = "Location mapping updated"]_vars

\* C22 case: a JSON array was applied after a mapping had been set: the
\* error is shown and the mapping is still there
C22_Witness ==
    /\ form = MappingForm(<<"[", "]">>)
    /\ message = "Mapping must be a JSON object (dictionary)."
    /\ session_state.location_map
         = [k \in {"Urban Clinic"} |-> JsonString("City Clinic")]
    /\ df[2].LOCATION = "City Clinic"

(***************************************************************************)
(* Data acquisition (specification SpecMetrics)                             *)
(***************************************************************************)
\* C23: data acquisition tries the active session, then a session built
\* from the environment configuration, then the local demo dataset, and
\* uses the first that succeeds; whenever no data source is reachable the
\* page loads the clearly labelled demo dataset instead of failing.
C23_FallbackNeverFails ==
    call.fn = "load_page" =>
        LET env == call.env
            r   == call.result
            env_session == env.cfg = "valid" /\ env.session_class
        IN  /\ ~r.failed
            /\ env.active => r.session = "active session"
            /\ (~env.active /\ env_session)
                  => r.session = "environment session"
            /\ (~env.active /\ ~env_session)
                  => /\ r.data = DemoTable
                     /\ r.label = "LOCAL demo"

(***************************************************************************)
(* The working table over a session (specification Spec)                    *)
(***************************************************************************)
\* the quantities the log holds for one row, added up
RECURSIVE LoggedQuantity(_, _)
LoggedQuantity(log, row) ==
    IF log = <<>> THEN 0
    ELSE (IF Head(log).Location = row.LOCATION /\ Head(log).Item = row.ITEM
          THEN Head(log).Quantity[2] ELSE 0)
         + LoggedQuantity(Tail(log), row)

\* C24: after any sequence of successfully applied actions a row's
\* closing_stock in the working table is its closing_stock when the
\* working table was created (a copy of df) plus the sum of the quantities
\* of the actions applied to that row; every quantity is at least 1, so
\* the closing stock never goes below an earlier value.
C24_StockIsInitialPlusActions ==
    Has("working_df") =>
        /\ \A i \in DOMAIN WorkingTable :
             /\ WorkingTable[i].CLOSING_STOCK =
                  df[i].CLOSING_STOCK + LoggedQuantity(ActionLog, df[i])
             /\ WorkingTable[i].CLOSING_STOCK >= df[i].CLOSING_STOCK
        /\ \A k \in DOMAIN ActionLog : ActionLog[k].Quantity[2] >= 1

\* C24 case: Oxygen at 10 received 5 and then 35 and stands at 50
C24_Witness ==
    /\ Has("working_df")
    /\ Len(ActionLog) = 2
    /\ ActionLog[1].Item = "Oxygen"
    /\ ActionLog[2].Item = "Oxygen"
    /\ ActionLog[1].Quantity = <<"+", 35>>
    /\ WorkingTable[1].CLOSING_STOCK = 50

\* C25: an action is applied only to a row whose working-table status is
\* Critical or Warning when it is submitted: a change of the working table
\* is a change of the selected row, which was at risk before the step; a
\* Healthy row is the same after every step; and while no row is at risk
\* no step applies an action (table and log stay as they are).
C25_OnlyAtRiskRowsActedOn ==
    [][Has("working_df") =>
         /\ WorkingTable' # WorkingTable =>
              /\ selected_index' \in DOMAIN WorkingTable
              /\ WorkingTable[selected_index'].STOCK_STATUS
                   \in {"Critical", "Warning"}
         /\ ActionLog' # ActionLog =>
              /\ selected_index' \in DOMAIN WorkingTable
              /\ WorkingTable[selected_index'].STOCK_STATUS
                   \in {"Critical", "Warning"}
         /\ \A i \in DOMAIN WorkingTable :
              WorkingTable[i].STOCK_STATUS = "Healthy" =>
                  WorkingTable'[i] = WorkingTable[i]
         /\ (\A i \in DOMAIN WorkingTable :
                WorkingTable[i].STOCK_STATUS = "Healthy") =>
              /\ WorkingTable' = WorkingTable
              /\ ActionLog' = ActionLog
              /\ message' # "success"
      ]_vars

\* C25 case: Oxygen became Healthy by +100, and the next action went to
\* the Bandage row, still at risk
C25_Witness ==
    /\ Has("working_df")
    /\ message = "success"
    /\ Len(ActionLog) = 2
    /\ ActionLog[2].Item = "Oxygen"
    /\ ActionLog[2].Quantity = <<"+", 100>>
    /\ ActionLog[1].Item = "Bandage"
    /\ WorkingTable[1].STOCK_STATUS = "Healthy"
    /\ WorkingTable[1].CLOSING_STOCK = 110
    /\ selected_index = 2

\* the fields an applied action writes (lines 728, 733, 737-744)
WrittenFields ==
    {"CLOSING_STOCK", "DAYS_TO_STOCKOUT", "STOCK_STATUS", "STATUS_BADGE"}

\* C26: an applied action changes only the selected row of the working
\* table, and of that row only closing stock, days-to-stockout, status and
\* status badge; every other row and every other field (location, item,
\* demand, lead time, priority, ...) is unchanged, and so is the table
\* loaded from the data source.
C26_OnlySelectedRowChanges ==
    [][/\ df' = df
       /\ Has("working_df") =>
            /\ DOMAIN WorkingTable' = DOMAIN WorkingTable
            /\ \A i \in DOMAIN WorkingTable :
                 /\ DOMAIN WorkingTable'[i] = DOMAIN WorkingTable[i]
                 /\ \A f \in DOMAIN WorkingTable[i] :
                      WorkingTable'[i][f] # WorkingTable[i][f] =>
                          /\ message' = "success"
                          /\ i = selected_index'
                          /\ f \in WrittenFields
      ]_vars

\* C26 case: +35 applied to the Bandage row (demand 0.5, floored to 1 for the
\* division only), the other rows as loaded
C26_Witness ==
    /\ Has("working_df")
    /\ message = "success"
    /\ selected_index = 2
    /\ form = FormValues("Received stock", 35, form.user)
    /\ WorkingTable[2].CLOSING_STOCK = 35
    /\ WorkingTable[2].AVG_DAILY_DEMAND = 5
    /\ WorkingTable[2].STOCK_STATUS = "Healthy"
    /\ WorkingTable[1] = df[1]
    /\ WorkingTable[3] = df[3]

\* C27: after an applied action the stored status of the row agrees with
\* its stored days-to-stockout (rounded to one decimal, held in tenths):
\* above 15 exactly when Healthy, above 5 and at most 15 exactly when
\* Warning, at most 5 exactly when Critical.
C27_StatusAgreesWithStoredDays ==
    (Has("working_df") /\ message = "success") =>
        /\ AppliedRow.DAYS_TO_STOCKOUT > 150
             <=> AppliedRow.STOCK_STATUS = "Healthy"
        /\ (AppliedRow.DAYS_TO_STOCKOUT > 50
              /\ AppliedRow.DAYS_TO_STOCKOUT <= 150)
             <=> AppliedRow.STOCK_STATUS = "Warning"
        /\ AppliedRow.DAYS_TO_STOCKOUT <= 50
             <=> AppliedRow.STOCK_STATUS = "Critical"

====
